---- MODULE Spec2Model ----
(***************************************************************************)
(* Model of src/screens/chat/ChatScreen.js: the one-to-one chat view that  *)
(* merges a fetched message history with live socket events.               *)
(*                                                                         *)
(* State: the React state of one ChatScreen instance (messages,            *)
(* inputMessage, userId, isLoading), its route parameter receiverId, the   *)
(* listeners registered on the module-level socket, and the asynchronous   *)
(* calls in flight (AsyncStorage.getItem of loadUserData, the HTTP request *)
(* of fetchMessages).  A state update and the effect run it triggers       *)
(* (cleanup of the previous effect, then the effect body, useEffect with   *)
(* dependencies [receiverId, userId]) are one step.  Of the list only the   *)
(* call of scrollToEnd by the last step is kept.                           *)
(***************************************************************************)
EXTENDS Integers, Sequences, FiniteSets, TLC

\* ---------------------------------------------------------------- bounds
MaxMsgId == 3
MaxLen == 2
MaxPending == 2

\* ------------------------------------------------------------- universe
Self == "u"
NoUser == ""
Peers == {"p1", "p2"}
MsgIds == 1..MaxMsgId
Statuses == {"sent", "delivered", "read"}

\* The fields of the message with identifier i, as the server assigned them.
PeerOf(i) == IF i % 3 = 0 THEN "p2" ELSE "p1"
SenderOf(i) == IF i % 2 = 1 THEN PeerOf(i) ELSE Self
ReceiverOf(i) == IF i % 2 = 1 THEN Self ELSE PeerOf(i)
CreatedAt(i) == IF i % 2 = 1 THEN 2 ELSE 1

Message(i, st) ==
    [_id |-> i, senderId |-> SenderOf(i), receiverId |-> ReceiverOf(i),
     createdAt |-> CreatedAt(i), status |-> st]

\* The texts the input field is given: characters as one-element strings.
InputTexts == { <<>>, <<" ", " ">>, <<" ", "h", "i", " ">> }

\* ---------------------------------------------------------------- state
VARIABLES
    mounted,        \* a ChatScreen instance is mounted
    receiverId,     \* route.params.receiverId of the last render
    messages,       \* useState([]) : the timeline
    inputMessage,   \* useState('')
    userId,         \* useState('')
    isLoading,      \* useState(true)
    listeners,      \* handlers registered on the shared socket, per event
    loads,          \* loadUserData calls awaiting AsyncStorage.getItem
    fetches,        \* fetchMessages calls awaiting the HTTP response
    outbox,         \* socket.emit calls made by the last step
    scrolled,       \* the last step called flatListRef.current.scrollToEnd
    last            \* the last step and its arguments

vars == <<mounted, receiverId, messages, inputMessage, userId, isLoading,
          listeners, loads, fetches, outbox, scrolled, last>>

\* ------------------------------------------------------------- helpers
RemoveAt(s, i) == SubSeq(s, 1, i - 1) \o SubSeq(s, i + 1, Len(s))

Ids(ms) == { ms[k]._id : k \in 1..Len(ms) }

\* String.prototype.trim on a sequence of characters.
RECURSIVE TrimLeft(_)
TrimLeft(s) ==
    IF s # <<>> /\ Head(s) = " " THEN TrimLeft(Tail(s)) ELSE s

RECURSIVE TrimRight(_)
TrimRight(s) ==
    IF s # <<>> /\ s[Len(s)] = " " THEN TrimRight(SubSeq(s, 1, Len(s) - 1)) ELSE s

\* Only the leading whitespace is removed.
trimStart(s) == TrimLeft(s)

trim(s) == TrimRight(TrimLeft(s))

\* The order the history store returns: createdAt ascending, then identifier.
Before(i, j) ==
    \/ CreatedAt(i) < CreatedAt(j)
    \/ CreatedAt(i) = CreatedAt(j) /\ i < j

First(S) == CHOOSE i \in S : \A j \in S \ {i} : Before(i, j)

RECURSIVE HistoryOf(_, _)
HistoryOf(S, st) ==
    IF S = {} THEN <<>>
    ELSE <<Message(First(S), st[First(S)])>> \o HistoryOf(S \ {First(S)}, st)

ConversationIds(a, b) ==
    { i \in MsgIds : {SenderOf(i), ReceiverOf(i)} = {a, b} }

\* The responses GET messages/<senderId>/<receiverId> can produce, per peer.
Histories ==
    [ peer \in Peers |->
        UNION { { HistoryOf(S, st) : st \in [S -> Statuses] } :
                S \in { T \in SUBSET ConversationIds(Self, peer) :
                          Cardinality(T) <= MaxLen } } ]

\* The record of a step: the operation, the message identifier and the
\* status it was called with (0 and "sent" where it has none).
Step(op, id, st) == [op |-> op, id |-> id, status |-> st]

\* ---------------------------------------------------- the event handlers
\* The filter compares with the session identity instead of the peer.
passesFilterSelf(h, m) == m.senderId = h.userId \/ m.receiverId = h.userId

\* handleReceiveMessage, line 38: the conversation filter of a closure.
passesFilter(h, m) == m.senderId = h.receiverId \/ m.receiverId = h.receiverId

\* handleReceiveMessage, line 39: the functional update of messages.
appendMessage(prevMessages, m) == Append(prevMessages, m)

\* handleReceiveMessage, lines 40-42: the emit of one closure.
deliveredEmit(h, m) ==
    IF m.receiverId = h.userId
    THEN << [event |-> "updateMessageStatus", messageId |-> m._id, status |-> "delivered"] >>
    ELSE << >>

\* The update inserts an entry for an identifier it does not find.
mapStatusUpsert(prevMessages, messageId, status) ==
    IF \E k \in 1..Len(prevMessages) : prevMessages[k]._id = messageId
    THEN [ k \in 1..Len(prevMessages) |->
            IF prevMessages[k]._id = messageId
            THEN [ prevMessages[k] EXCEPT !.status = status ]
            ELSE prevMessages[k] ]
    ELSE Append(prevMessages, Message(messageId, status))

\* handleMessageStatusUpdated, lines 49-51.
mapStatus(prevMessages, messageId, status) ==
    [ k \in 1..Len(prevMessages) |->
        IF prevMessages[k]._id = messageId
        THEN [ prevMessages[k] EXCEPT !.status = status ]
        ELSE prevMessages[k] ]

\* Every registered receiveMessage listener applied in registration order.
RECURSIVE receiveAll(_, _, _)
receiveAll(hs, ms, m) ==
    IF hs = <<>> THEN ms
    ELSE receiveAll(Tail(hs),
                    IF passesFilter(Head(hs), m) THEN appendMessage(ms, m) ELSE ms,
                    m)

RECURSIVE emitAll(_, _)
emitAll(hs, m) ==
    IF hs = <<>> THEN <<>>
    ELSE (IF passesFilter(Head(hs), m) THEN deliveredEmit(Head(hs), m) ELSE <<>>)
         \o emitAll(Tail(hs), m)

RECURSIVE statusAll(_, _, _, _)
statusAll(hs, ms, messageId, status) ==
    IF hs = <<>> THEN ms
    ELSE statusAll(Tail(hs), mapStatus(ms, messageId, status), messageId, status)

\* fetchMessages, line 76: the timeline after a response.
setMessages(prevMessages, data) == data

\* The receipts are sent for messages that are read already, too.
RECURSIVE readEmitsAnyStatus(_, _)
readEmitsAnyStatus(data, senderId) ==
    IF data = <<>> THEN <<>>
    ELSE (IF Head(data).receiverId = senderId
          THEN << [event |-> "updateMessageStatus", messageId |-> Head(data)._id,
                   status |-> "read"] >>
          ELSE <<>>)
         \o readEmitsAnyStatus(Tail(data), senderId)

\* fetchMessages, lines 80-84: the read receipts for a response.
RECURSIVE readEmits(_, _)
readEmits(data, senderId) ==
    IF data = <<>> THEN <<>>
    ELSE (IF Head(data).receiverId = senderId /\ Head(data).status # "read"
          THEN << [event |-> "updateMessageStatus", messageId |-> Head(data)._id,
                   status |-> "read"] >>
          ELSE <<>>)
         \o readEmits(Tail(data), senderId)

\* The guard tests the text without trimming it.
sendEmitsUntrimmed(text, uid, rid) ==
    IF text = <<>> THEN <<>>
    ELSE << [event |-> "sendMessage", senderId |-> uid, receiverId |-> rid,
             text |-> trim(text)] >>

\* sendMessage, lines 94-102: the emits for an input text.
sendEmits(text, uid, rid) ==
    IF trim(text) = <<>> THEN <<>>
    ELSE << [event |-> "sendMessage", senderId |-> uid, receiverId |-> rid,
             text |-> trim(text)] >>

\* sendMessage, lines 94 and 103: the input text after the call.
sendInput(text) == IF trim(text) = <<>> THEN text ELSE <<>>

\* ------------------------------------------------- effect (lines 19-61)
\* scrollToBottom, lines 135-139: ref is whether flatListRef.current is set
\* (the FlatList is rendered), nonEmpty whether messages.length > 0 holds
\* for the messages of the render the function belongs to.
scrollToBottom(ref, nonEmpty) == ref /\ nonEmpty

\* The handlers keep the userId of the first render.
ClosureFirstUser(rid, uid, len) ==
    [receiverId |-> rid, userId |-> NoUser, nonEmpty |-> len > 0]

\* The values the handlers of one effect run close over: receiverId, userId
\* and, through scrollToBottom, the messages of that render (of which only
\* messages.length > 0 is read).
Closure(rid, uid, len) == [receiverId |-> rid, userId |-> uid, nonEmpty |-> len > 0]

\* A loadUserData call: fetchMessages of its render closes over receiverId
\* and, through scrollToBottom, over the messages of that render.
Load(rid, len) == [receiverId |-> rid, nonEmpty |-> len > 0]

\* socket.on for both events, lines 54-55.
socketOn(ls, h) ==
    [receiveMessage |-> Append(ls.receiveMessage, h),
     messageStatusUpdated |-> Append(ls.messageStatusUpdated, h)]

\* The effect returns no cleanup: the handlers stay registered.
socketOffNothing(ls) == ls

\* The cleanup of the previous effect run, lines 57-60: it removes the
\* handlers that run registered, the most recently added ones.
socketOff(ls) ==
    [receiveMessage |-> SubSeq(ls.receiveMessage, 1, Len(ls.receiveMessage) - 1),
     messageStatusUpdated |->
        SubSeq(ls.messageStatusUpdated, 1, Len(ls.messageStatusUpdated) - 1)]

NoListeners == [receiveMessage |-> <<>>, messageStatusUpdated |-> <<>>]

Pending == Len(loads) + Len(fetches)

\* ----------------------------------------------------------------- Init
Init ==
    /\ mounted = FALSE
    /\ receiverId = "p1"
    /\ messages = <<>>
    /\ inputMessage = <<>>
    /\ userId = NoUser
    /\ isLoading = TRUE
    /\ listeners = NoListeners
    /\ loads = <<>>
    /\ fetches = <<>>
    /\ outbox = <<>>
    /\ scrolled = FALSE
    /\ last = Step("init", 0, "sent")

\* -------------------------------------------------------------- actions
\* Mounting the screen for peer p: the initial state of lines 13-16 and the
\* first effect run (loadUserData started, listeners registered).  A screen
\* is opened once the calls of a closed one have settled.
Mount(p) ==
    /\ ~mounted
    /\ Pending = 0
    /\ mounted' = TRUE
    /\ receiverId' = p
    /\ messages' = <<>>
    /\ inputMessage' = <<>>
    /\ userId' = NoUser
    /\ isLoading' = TRUE
    /\ listeners' = socketOn(listeners, Closure(p, NoUser, 0))
    /\ loads' = Append(loads, Load(p, 0))
    /\ outbox' = <<>>
    /\ scrolled' = FALSE
    /\ last' = Step("mount", 0, "sent")
    /\ UNCHANGED fetches

\* route.params.receiverId changes to p: the effect is cleaned up and run
\* again for the new render.
ChangeReceiver(p) ==
    /\ mounted
    /\ p # receiverId
    /\ Pending < MaxPending
    /\ receiverId' = p
    /\ listeners' = socketOn(socketOff(listeners), Closure(p, userId, Len(messages)))
    /\ loads' = Append(loads, Load(p, Len(messages)))
    /\ outbox' = <<>>
    /\ scrolled' = FALSE
    /\ last' = Step("changeReceiver", 0, "sent")
    /\ UNCHANGED <<mounted, messages, inputMessage, userId, isLoading, fetches>>

\* The screen is closed: the cleanup runs and the state of the instance is
\* gone; the calls in flight keep running, their state updates are no-ops.
Unmount ==
    /\ mounted
    /\ mounted' = FALSE
    /\ listeners' = socketOff(listeners)
    /\ receiverId' = "p1"
    /\ messages' = <<>>
    /\ inputMessage' = <<>>
    /\ userId' = NoUser
    /\ isLoading' = TRUE
    /\ outbox' = <<>>
    /\ scrolled' = FALSE
    /\ last' = Step("unmount", 0, "sent")
    /\ UNCHANGED <<loads, fetches>>

\* loadUserData, lines 23-28, when AsyncStorage.getItem resolves with the
\* stored user id: setUserId, then fetchMessages up to its first await
\* (setIsLoading(true)); a changed userId runs the effect again.
LoadUserDataResolve(i) ==
    /\ i \in 1..Len(loads)
    /\ LET rerun == mounted /\ userId # Self
       IN  /\ Pending + (IF rerun THEN 1 ELSE 0) <= MaxPending
           /\ listeners' = IF rerun
                           THEN socketOn(socketOff(listeners),
                                         Closure(receiverId, Self, Len(messages)))
                           ELSE listeners
           /\ loads' = IF rerun
                       THEN Append(RemoveAt(loads, i), Load(receiverId, Len(messages)))
                       ELSE RemoveAt(loads, i)
    /\ userId' = IF mounted THEN Self ELSE userId
    /\ isLoading' = IF mounted THEN TRUE ELSE isLoading
    /\ fetches' = Append(fetches, [senderId |-> Self, receiverId |-> loads[i].receiverId,
                                   nonEmpty |-> loads[i].nonEmpty])
    /\ last' = Step("loadUserData", 0, "sent")
    /\ outbox' = <<>>
    /\ scrolled' = FALSE
    /\ UNCHANGED <<mounted, receiverId, messages, inputMessage>>

\* Without a stored user id the loading indicator is taken down.
LoadUserDataEmptyStops(i) ==
    /\ i \in 1..Len(loads)
    /\ loads' = RemoveAt(loads, i)
    /\ isLoading' = IF mounted THEN FALSE ELSE isLoading
    /\ outbox' = <<>>
    /\ scrolled' = FALSE
    /\ last' = Step("loadUserDataEmpty", 0, "sent")
    /\ UNCHANGED <<mounted, receiverId, messages, inputMessage, userId,
                   listeners, fetches>>

\* loadUserData when no user id is stored (line 25) or getItem throws
\* (line 29): nothing is set and no fetch is started.
LoadUserDataEmpty(i) ==
    /\ i \in 1..Len(loads)
    /\ loads' = RemoveAt(loads, i)
    /\ outbox' = <<>>
    /\ scrolled' = FALSE
    /\ last' = Step("loadUserDataEmpty", 0, "sent")
    /\ UNCHANGED <<mounted, receiverId, messages, inputMessage, userId, isLoading,
                   listeners, fetches>>

\* fetchMessages, lines 75-86: the response is ok and parsed.  The FlatList
\* is rendered while isLoading is false; whether the render for
\* setIsLoading(false) is committed before scrollToBottom of line 86 runs
\* depends on how React batches the updates, so the ref may or may not be
\* set when the screen was loading.
FetchResolve(i, data) ==
    /\ i \in 1..Len(fetches)
    /\ data \in Histories[fetches[i].receiverId]
    /\ messages' = IF mounted THEN setMessages(messages, data) ELSE messages
    /\ isLoading' = IF mounted THEN FALSE ELSE isLoading
    /\ outbox' = readEmits(data, fetches[i].senderId)
    /\ scrolled' \in { mounted /\ scrollToBottom(ref, fetches[i].nonEmpty) :
                         ref \in {~isLoading, TRUE} }
    /\ last' = Step("fetchResolve", 0, "sent")
    /\ fetches' = RemoveAt(fetches, i)
    /\ UNCHANGED <<mounted, receiverId, inputMessage, userId, listeners, loads>>

\* The catch block does not reset isLoading.
FetchFailStuck(i) ==
    /\ i \in 1..Len(fetches)
    /\ fetches' = RemoveAt(fetches, i)
    /\ outbox' = <<>>
    /\ scrolled' = FALSE
    /\ last' = Step("fetchFail", 0, "sent")
    /\ UNCHANGED <<mounted, receiverId, messages, inputMessage, userId, isLoading,
                   listeners, loads>>

\* fetchMessages, lines 87-90: getToken or fetch throws, or the response is
\* not ok.
FetchFail(i) ==
    /\ i \in 1..Len(fetches)
    /\ isLoading' = IF mounted THEN FALSE ELSE isLoading
    /\ fetches' = RemoveAt(fetches, i)
    /\ outbox' = <<>>
    /\ scrolled' = FALSE
    /\ last' = Step("fetchFail", 0, "sent")
    /\ UNCHANGED <<mounted, receiverId, messages, inputMessage, userId, listeners, loads>>

\* The socket delivers 'receiveMessage' with message m to every registered
\* handler (lines 37-45).
ReceiveMessage(m) ==
    /\ Len(receiveAll(listeners.receiveMessage, messages, m)) <= MaxLen
    /\ messages' = receiveAll(listeners.receiveMessage, messages, m)
    /\ outbox' = emitAll(listeners.receiveMessage, m)
    /\ scrolled' = \E k \in 1..Len(listeners.receiveMessage) :
                      /\ passesFilter(listeners.receiveMessage[k], m)
                      /\ scrollToBottom(mounted /\ ~isLoading,
                                        listeners.receiveMessage[k].nonEmpty)
    /\ last' = Step("receiveMessage", m._id, m.status)
    /\ UNCHANGED <<mounted, receiverId, inputMessage, userId, isLoading, listeners,
                   loads, fetches>>

\* The socket delivers 'messageStatusUpdated' to every registered handler
\* (lines 48-52).
MessageStatusUpdated(messageId, status) ==
    /\ messages' = statusAll(listeners.messageStatusUpdated, messages, messageId, status)
    /\ outbox' = <<>>
    /\ scrolled' = FALSE
    /\ last' = Step("messageStatusUpdated", messageId, status)
    /\ UNCHANGED <<mounted, receiverId, inputMessage, userId, isLoading, listeners,
                   loads, fetches>>

\* onChangeText of the input field (line 149), rendered while not loading.
SetInputMessage(text) ==
    /\ mounted
    /\ ~isLoading
    /\ text # inputMessage
    /\ inputMessage' = text
    /\ outbox' = <<>>
    /\ scrolled' = FALSE
    /\ last' = Step("setInputMessage", 0, "sent")
    /\ UNCHANGED <<mounted, receiverId, messages, userId, isLoading, listeners,
                   loads, fetches>>

\* sendMessage, lines 93-104, called with the current input text.
SendMessage ==
    /\ mounted
    /\ ~isLoading
    /\ outbox' = sendEmits(inputMessage, userId, receiverId)
    /\ inputMessage' = sendInput(inputMessage)
    /\ scrolled' = FALSE
    /\ last' = Step("sendMessage", 0, "sent")
    /\ UNCHANGED <<mounted, receiverId, messages, userId, isLoading, listeners,
                   loads, fetches>>

Next ==
    \/ \E p \in Peers : Mount(p)
    \/ \E p \in Peers : ChangeReceiver(p)
    \/ Unmount
    \/ \E i \in 1..MaxPending : LoadUserDataResolve(i)
    \/ \E i \in 1..MaxPending : LoadUserDataEmpty(i)
    \/ \E i \in 1..MaxPending : \E p \in Peers : \E data \in Histories[p] :
          FetchResolve(i, data)
    \/ \E i \in 1..MaxPending : FetchFail(i)
    \/ \E i \in MsgIds : ReceiveMessage(Message(i, "sent"))
    \/ \E i \in MsgIds : \E st \in Statuses : MessageStatusUpdated(i, st)
    \/ \E text \in InputTexts : SetInputMessage(text)
    \/ SendMessage

Spec == Init /\ [][Next]_vars

\* ======================================================== the claims
\* The order sent < delivered < read of the status lattice.
Rank(st) == IF st = "sent" THEN 1 ELSE IF st = "delivered" THEN 2 ELSE 3

\* The entry belongs to the conversation with peer p.
OfPeer(m, p) == m.senderId = p \/ m.receiverId = p

\* The step removed a fetch of the active conversation from the calls in flight.
ActiveFetchSettled ==
    \E i \in 1..Len(fetches) :
        fetches[i].receiverId = receiverId /\ fetches' = RemoveAt(fetches, i)

\* C1: in every reachable state the timeline holds at most one entry per
\* message identifier, also after the same message was received twice or
\* was both received and fetched.
C1_UniqueIds ==
    \A j, k \in 1..Len(messages) : j # k => messages[j]._id # messages[k]._id

\* C2: across a messageStatusUpdated event the status of every entry of the
\* timeline never decreases under sent < delivered < read (so an entry that
\* is read stays read).
C2_StatusMonotone ==
    [][ last'.op = "messageStatusUpdated" =>
          /\ Len(messages') = Len(messages)
          /\ \A k \in 1..Len(messages) :
                Rank(messages'[k].status) >= Rank(messages[k].status) ]_vars

\* C3: a message of the timeline that a live event set to read while the
\* history fetch of the active conversation was in flight is still read
\* once that fetch has resolved with a response that contains it (here the
\* event is the step right before the response).
C3_ReadSurvivesFetch ==
    [][ ( /\ mounted
          /\ last.op = "messageStatusUpdated" /\ last.status = "read"
          /\ \E k \in 1..Len(messages) :
                messages[k]._id = last.id /\ messages[k].status = "read"
          /\ last'.op = "fetchResolve"
          /\ ActiveFetchSettled )
        => \A k \in 1..Len(messages') :
              messages'[k]._id = last.id => messages'[k].status = "read" ]_vars

\* C4: a message of the active conversation that was received and inserted
\* while the history fetch was in flight is in the timeline after the fetch
\* result was applied (here the message is received right before the
\* response).
C4_LiveMessageKept ==
    [][ ( /\ mounted
          /\ last.op = "receiveMessage"
          /\ OfPeer(Message(last.id, "sent"), receiverId)
          /\ last.id \in Ids(messages)
          /\ last'.op = "fetchResolve"
          /\ ActiveFetchSettled )
        => last.id \in Ids(messages') ]_vars

\* The identifiers of a timeline with their statuses.
Content(ms) == { <<ms[k]._id, ms[k].status>> : k \in 1..Len(ms) }

\* C5: while the history fetch of the active conversation is in flight, the
\* timeline reached by applying a live event and then the response has the
\* same identifiers and statuses as the one reached by applying the
\* response and then the live event, for every response and every event.
C5_OrderIndependent ==
    ( /\ mounted
      /\ \E i \in 1..Len(fetches) : fetches[i].receiverId = receiverId )
    => \A data \in Histories[receiverId] :
          /\ \A i \in MsgIds :
                Content(setMessages(receiveAll(listeners.receiveMessage, messages,
                                               Message(i, "sent")), data))
                = Content(receiveAll(listeners.receiveMessage,
                                     setMessages(messages, data), Message(i, "sent")))
          /\ \A i \in MsgIds : \A st \in Statuses :
                Content(setMessages(statusAll(listeners.messageStatusUpdated, messages,
                                              i, st), data))
                = Content(statusAll(listeners.messageStatusUpdated,
                                    setMessages(messages, data), i, st))

\* C6: once every call in flight has settled, every entry of the timeline
\* has the active peer as sender or receiver: no message of a prior
\* conversation is left after the peer identifier changed.
C6_OnlyActivePeer ==
    (mounted /\ Pending = 0) =>
        \A k \in 1..Len(messages) : OfPeer(messages[k], receiverId)

\* C7: in every reachable state the timeline is sorted by creation timestamp
\* ascending, with the identifier ascending as tie-break.
C7_Sorted ==
    \A j, k \in 1..Len(messages) :
        j < k => ~Before(messages[k]._id, messages[j]._id)

\* C8: a receiveMessage event whose sender and receiver both differ from the
\* active peer leaves the timeline unchanged and emits nothing.
C8_ForeignMessageIgnored ==
    [][ ( /\ last'.op = "receiveMessage"
          /\ SenderOf(last'.id) # receiverId
          /\ ReceiverOf(last'.id) # receiverId )
        => (messages' = messages /\ outbox' = <<>>) ]_vars

\* A message of the conversation the view showed before the peer changed
\* has arrived and entries of that conversation are in the timeline.
C8_Witness ==
    /\ mounted
    /\ listeners.receiveMessage # <<>>
    /\ last.op = "receiveMessage"
    /\ SenderOf(last.id) # receiverId
    /\ ReceiverOf(last.id) # receiverId
    /\ \E k \in 1..Len(messages) : OfPeer(messages[k], PeerOf(last.id))

\* C9: a messageStatusUpdated event whose messageId is not in the timeline
\* leaves the timeline unchanged (no placeholder entry) and emits nothing.
C9_AbsentStatusNoOp ==
    [][ ( /\ last'.op = "messageStatusUpdated"
          /\ last'.id \notin Ids(messages) )
        => (messages' = messages /\ outbox' = <<>>) ]_vars

\* The event has been handled by a registered handler of a non-empty
\* timeline that does not hold its messageId.
C9_Witness ==
    /\ mounted
    /\ listeners.messageStatusUpdated # <<>>
    /\ last.op = "messageStatusUpdated"
    /\ messages # <<>>
    /\ last.id \notin Ids(messages)

\* The text consists of whitespace only (it is empty after trimming).
Blank(text) == \A k \in 1..Len(text) : text[k] = " "

\* C10: sendMessage with an input text that is empty after trimming emits
\* nothing and leaves the timeline and the input text unchanged.
C10_BlankSendRejected ==
    [][ ( /\ last'.op = "sendMessage"
          /\ Blank(inputMessage) )
        => (outbox' = <<>> /\ messages' = messages /\ inputMessage' = inputMessage) ]_vars

\* sendMessage has been called with a text of spaces only.
C10_Witness ==
    /\ last.op = "sendMessage"
    /\ inputMessage # <<>>
    /\ Blank(inputMessage)
    /\ outbox = <<>>

\* The text without its leading and trailing spaces, character by character.
Stripped(text, t) ==
    \E a \in 1..Len(text) : \E b \in a..Len(text) :
        /\ t = SubSeq(text, a, b)
        /\ text[a] # " " /\ text[b] # " "
        /\ \A k \in 1..Len(text) : (k < a \/ k > b) => text[k] = " "

\* C11: sendMessage with an input text that is not empty after trimming
\* emits exactly one sendMessage event, with the session identity as
\* sender, the active peer as receiver and the trimmed text, and leaves the
\* timeline unchanged.
C11_SendEmitsOne ==
    [][ ( /\ last'.op = "sendMessage"
          /\ ~Blank(inputMessage) )
        => /\ Len(outbox') = 1
           /\ outbox'[1].event = "sendMessage"
           /\ outbox'[1].senderId = userId
           /\ outbox'[1].receiverId = receiverId
           /\ Stripped(inputMessage, outbox'[1].text)
           /\ messages' = messages ]_vars

\* sendMessage has emitted for a padded text while the timeline holds entries.
C11_Witness ==
    /\ last.op = "sendMessage"
    /\ outbox # <<>>
    /\ messages # <<>>

\* C12: one history fetch is started per conversation-open: two fetches for
\* the active pair are never started by two steps in a row, with no peer
\* change and no close between them.
C12_OneFetchPerOpen ==
    [][ ( /\ mounted
          /\ last.op = "loadUserData"
          /\ last'.op = "loadUserData" )
        => ~ ( /\ fetches[Len(fetches)].receiverId = receiverId
               /\ fetches'[Len(fetches')].receiverId = receiverId ) ]_vars

\* C13: when the history fetch fails, isLoading becomes false, the timeline
\* is what it was before the failure and nothing is emitted.
C13_FetchFailureKeepsTimeline ==
    [][ ( /\ mounted
          /\ last'.op = "fetchFail" )
        => (~isLoading' /\ messages' = messages /\ outbox' = <<>>) ]_vars

\* A fetch has failed after live messages were inserted.
C13_Witness ==
    /\ mounted
    /\ last.op = "fetchFail"
    /\ messages # <<>>
    /\ ~isLoading

\* The timeline after the registered handlers saw status a, then status b,
\* for the message with identifier id.
AfterStatuses(id, a, b) ==
    statusAll(listeners.messageStatusUpdated,
              statusAll(listeners.messageStatusUpdated, messages, id, a), id, b)

Max(x, y) == IF x >= y THEN x ELSE y

\* C14: for every entry of the timeline and statuses a and b, the events
\* messageStatusUpdated(a) then (b) leave the same status as (b) then (a),
\* the maximum of the stored status, a and b.
C14_StatusCommutes ==
    mounted =>
        \A k \in 1..Len(messages) : \A a, b \in Statuses :
            /\ AfterStatuses(messages[k]._id, a, b) = AfterStatuses(messages[k]._id, b, a)
            /\ Rank(AfterStatuses(messages[k]._id, a, b)[k].status)
                 = Max(Rank(messages[k].status), Max(Rank(a), Rank(b)))

\* C15: after a successful fetch the emitted events are updateMessageStatus
\* requests with status read, one for each returned message whose receiver
\* is the session identity and whose status is not read, and none for any
\* other message.
C15_ReadReceipts ==
    (mounted /\ last.op = "fetchResolve") =>
        /\ \A k \in 1..Len(outbox) :
              outbox[k].event = "updateMessageStatus" /\ outbox[k].status = "read"
        /\ \A id \in MsgIds :
              Cardinality({ k \in 1..Len(outbox) : outbox[k].messageId = id })
              = IF \E j \in 1..Len(messages) :
                      /\ messages[j]._id = id
                      /\ messages[j].receiverId = Self
                      /\ messages[j].status # "read"
                THEN 1 ELSE 0

\* A response with two messages has caused one request.
C15_Witness ==
    /\ mounted
    /\ last.op = "fetchResolve"
    /\ Len(messages) = 2
    /\ Len(outbox) = 1

\* The request handleReceiveMessage emits for the message with identifier id.
Delivered(id) ==
    [event |-> "updateMessageStatus", messageId |-> id, status |-> "delivered"]

\* C16: once userId holds the session identity, a receiveMessage event that
\* passes the conversation filter and whose receiver is the session identity
\* emits exactly one delivered request for its identifier; an event whose
\* receiver is not the session identity, or that does not pass the filter,
\* emits nothing.
C16_DeliveredReceipt ==
    [][ last'.op = "receiveMessage" =>
          /\ ( /\ mounted /\ userId = Self
               /\ OfPeer(Message(last'.id, "sent"), receiverId)
               /\ ReceiverOf(last'.id) = Self )
             => outbox' = << Delivered(last'.id) >>
          /\ ( \/ ReceiverOf(last'.id) # Self
               \/ ~OfPeer(Message(last'.id, "sent"), receiverId) )
             => outbox' = <<>> ]_vars

\* The session identity is loaded and a message addressed to it has been
\* received and acknowledged.
C16_Witness ==
    /\ mounted
    /\ userId = Self
    /\ last.op = "receiveMessage"
    /\ outbox = << Delivered(last.id) >>

\* C17: a receiveMessage event that adds an entry to the timeline while the
\* list is rendered reaches scrollToEnd.
C17_InsertScrolls ==
    [][ ( /\ mounted /\ ~isLoading
          /\ last'.op = "receiveMessage"
          /\ Len(messages') > Len(messages) )
        => scrolled' ]_vars

\* C18: at most one receiveMessage handler and one messageStatusUpdated
\* handler are registered, and none once the view is closed; an inbound
\* message adds at most one entry, and with the view closed inbound events
\* change nothing and emit nothing.
C18_SingleSubscription ==
    /\ [] ( /\ Len(listeners.receiveMessage) <= 1
            /\ Len(listeners.messageStatusUpdated) <= 1
            /\ (~mounted => listeners = NoListeners) )
    /\ [][ ( last'.op = "receiveMessage" => Len(messages') <= Len(messages) + 1 )
           /\ ( (~mounted /\ last'.op \in {"receiveMessage", "messageStatusUpdated"})
                => (messages' = messages /\ outbox' = <<>>) ) ]_vars

\* The identity was loaded and the peer changed: the effect has run three
\* times and one handler per event is registered.
C18_Witness ==
    /\ mounted
    /\ userId = Self
    /\ last.op = "changeReceiver"
    /\ Len(listeners.receiveMessage) = 1
    /\ Len(listeners.messageStatusUpdated) = 1

\* C19: whenever isLoading is false, no history fetch for the active pair
\* is in flight.
C19_LoadingFaithful ==
    (mounted /\ ~isLoading) =>
        \A i \in 1..Len(fetches) : fetches[i].receiverId # receiverId

\* C20: while the screen is not loading, userId holds the loaded session
\* identity, and every emitted sendMessage event carries it as senderId,
\* never the empty initial value.
C20_SenderNeverEmpty ==
    /\ (mounted /\ ~isLoading) => userId = Self
    /\ \A k \in 1..Len(outbox) :
          outbox[k].event = "sendMessage" =>
              (outbox[k].senderId # NoUser /\ outbox[k].senderId = Self)

\* A sendMessage event has been emitted with the loaded identity.
C20_Witness ==
    /\ last.op = "sendMessage"
    /\ Len(outbox) = 1
    /\ outbox[1].event = "sendMessage"
    /\ outbox[1].senderId = Self
====
